---- MODULE Spec2Model ----
(***************************************************************************)
(* Model of the giveaway bot in src/main.py: the participants table, the   *)
(* membership gate, and the two aiogram handlers cmd_start and cmd_list,   *)
(* each cut into one step per await so that handlers of different updates  *)
(* interleave the way asyncio tasks do.                                    *)
(***************************************************************************)
EXTENDS Integers, Sequences, FiniteSets, TLC

\* ------------------------------------------------------------------ bounds
\* Telegram user ids are 1..NumUsers; id 0 stands for "message.from_user is None".
NumUsers == 2
\* Handler tasks that can be in flight at the same time.
MaxTasks == 2
\* Updates the webhook receives in one behaviour.
MaxUpdates == 3
\* Largest text, in characters, that sendMessage accepts: Telegram's 4096, scaled
\* down so that a listing of two rows can fall on either side of it.
MaxMessageLen == 55

Users == 1..NumUsers

\* ------------------------------------------------------------------ values
\* Text is a sequence of characters.  SQL NULL / Python None is the one-element
\* sequence None, which no text of the model equals.
None == <<"None">>

\* Python truthiness of an Optional[str]: None and "" are falsy.
Truthy(s) == s # None /\ s # <<>>

\* str.strip(): drop leading and trailing blanks.
RECURSIVE LStrip(_)
LStrip(s) == IF s # <<>> /\ Head(s) = " " THEN LStrip(Tail(s)) ELSE s

RECURSIVE RStrip(_)
RStrip(s) ==
    IF s # <<>> /\ s[Len(s)] = " " THEN RStrip(SubSeq(s, 1, Len(s) - 1)) ELSE s

Strip(s) == RStrip(LStrip(s))

\* The display data a Telegram account can carry: a username, both names, nothing
\* usable as a name, or a first name only.
Profiles ==
    << [username |-> <<"n", "e", "o">>, first_name |-> <<"A", "n">>, last_name |-> None],
       [username |-> None, first_name |-> <<"A", "n">>, last_name |-> <<"L", "i">>],
       [username |-> None, first_name |-> <<>>, last_name |-> None],
       [username |-> None, first_name |-> <<"A", "n">>, last_name |-> None] >>

\* Accounts change their display data over time: the data account i carries in
\* the n-th update the webhook receives.  Two updates in a row from one account
\* differ, and so do the accounts within one update.
ProfileAt(i, n) == Profiles[((i + n) % Len(Profiles)) + 1]

\* message.from_user; id 0 is the absent sender.
TgUser(i, p) ==
    [id |-> i, username |-> p.username, first_name |-> p.first_name,
     last_name |-> p.last_name]

NoUser == TgUser(0, Profiles[3])

\* The updates the webhook can receive as its n-th: "/start" or "/list" from any
\* account, and these or other text from no sender.
Updates(n) ==
    { [text |-> t, from_user |-> TgUser(i, ProfileAt(i, n))] :
        t \in {"/start", "/list"}, i \in Users }
    \cup { [text |-> t, from_user |-> NoUser] : t \in {"/start", "/list", "hi"} }

\* The answers of getChatMember: a ChatMemberStatus, or the call raising.
MemberStatuses ==
    {"creator", "administrator", "member", "restricted", "left", "kicked"}

GateOutcomes == MemberStatuses \cup {"error"}

\* ------------------------------------------------------------------ state
VARIABLES
    participants,   \* the rows of table participants
    id_seq,         \* last value of the SERIAL sequence behind participants.id;
                    \* also the store's logical clock, which every write advances
    ADMIN_IDS,      \* the allow-set parsed from the environment
    arrived,        \* number of updates received so far
    tasks,          \* the handler tasks in flight, one record each (see NewTask)
    reported,       \* history: per user, the numbers reported to them so far
    gate_log        \* history: the last getChatMember call (see LogCall); kept
                    \* where handlers run one by one (InitSeq), off under Init

vars == <<participants, id_seq, ADMIN_IDS, arrived, tasks, reported, gate_log>>

store == <<participants, id_seq>>

\* now() as the store sees it.
Now == id_seq

\* A handler task.  Its position and the handler's local variables:
\*   pc          the await it is suspended at, "return" or "raised" once it is over
\*   update      the update it handles (message.text, message.from_user)
\*   existing    cmd_start: result of get_participant, a set of <= 1 rows
\*   subscribed  cmd_start: result of check_subscription
\*   num         cmd_start: result of add_participant
\*   rows        cmd_list: result of list_participants
\*   sent        the messages message.answer has sent
\* and the history of what it did:
\*   handler     the handler the dispatcher ran for it, "none" if no filter matched
\*   arrival     arrival index of its update
\*   rerun       its sender had already been told a number when the update arrived
\*   gate, reads, writes   calls made to getChatMember, store reads, store writes
\*   gate_raised getChatMember raised
\*   inserted    its add_participant inserted the row
\*   failed      one of its store calls raised
\*   table       the table as list_participants read it
NewTask(upd, handler, entry, n, told) ==
    [pc |-> entry, update |-> upd, existing |-> {}, subscribed |-> FALSE,
     num |-> 0, rows |-> <<>>, sent |-> <<>>,
     handler |-> handler, arrival |-> n,
     rerun |-> (upd.from_user.id \in DOMAIN told /\ told[upd.from_user.id] # {}),
     gate |-> 0, reads |-> 0, writes |-> 0,
     gate_raised |-> FALSE, inserted |-> FALSE, failed |-> FALSE, table |-> {}]

\* The allow-sets the environment can configure (main.py:36-37).
AdminConfigs == { {}, {1} }

Init ==
    /\ participants = {}
    /\ id_seq = 0
    /\ ADMIN_IDS \in AdminConfigs
    /\ arrived = 0
    /\ tasks = {}
    /\ reported = [u \in Users |-> {}]
    /\ gate_log = [kept |-> FALSE, last |-> <<>>]

\* ------------------------------------------------------------------ store
\* The columns the two SELECTs return (main.py:94, main.py:136): all but created_at.
Select(r) ==
    [id |-> r.id, user_id |-> r.user_id, username |-> r.username,
     first_name |-> r.first_name, last_name |-> r.last_name]

\* Variant: the WHERE clause is missing, so fetchrow gives whichever row comes first.
get_participant_any(table, user_id) ==
    IF table = {} THEN {}
    ELSE { Select(CHOOSE r \in table : \A x \in table : r.id <= x.id) }

\* SELECT ... WHERE user_id = $1; fetchrow gives the row or None: a set of <= 1 rows.
get_participant(table, user_id) ==
    { Select(r) : r \in { x \in table : x.user_id = user_id } }

\* nextval of the SERIAL sequence.
NextVal(seq) == seq + 1

\* Variant: the Telegram user id serves as the number.
NewRow_keyed_by_user(id, user, now) ==
    [id |-> user.id, user_id |-> user.id, username |-> user.username,
     first_name |-> user.first_name, last_name |-> user.last_name,
     created_at |-> now]

\* The row INSERT proposes: id from the sequence default, created_at from now().
NewRow(id, user, now) ==
    [id |-> id, user_id |-> user.id, username |-> user.username,
     first_name |-> user.first_name, last_name |-> user.last_name,
     created_at |-> now]

\* Variant: ON CONFLICT (user_id) DO NOTHING.
ConflictUpdate_nothing(r, user) == r

\* ON CONFLICT (user_id) DO UPDATE SET username, first_name, last_name = EXCLUDED.*
ConflictUpdate(r, user) ==
    [r EXCEPT !.username = user.username, !.first_name = user.first_name,
              !.last_name = user.last_name]

\* Variant: a plain INSERT on a table without the UNIQUE constraint.
add_participant_plain_insert(table, seq, user, now) ==
    [table |-> table \cup {[id |-> seq + 1, user_id |-> user.id,
                             username |-> user.username,
                             first_name |-> user.first_name,
                             last_name |-> user.last_name, created_at |-> now]},
     id_seq |-> seq + 1, id |-> seq + 1, inserted |-> TRUE]

\* Variant: REPLACE semantics, the conflicting row is deleted and a new one inserted.
add_participant_replace(table, seq, user, now) ==
    LET hit == { r \in table : r.user_id = user.id }
    IN [table |-> (table \ hit) \cup
                    {[id |-> seq + 1, user_id |-> user.id,
                      username |-> user.username, first_name |-> user.first_name,
                      last_name |-> user.last_name, created_at |-> now]},
        id_seq |-> seq + 1, id |-> seq + 1, inserted |-> hit = {}]

\* Variant: the number is taken from the sequence only when the row is inserted.
add_participant_number_on_insert(table, seq, user, now) ==
    LET hit == { r \in table : r.user_id = user.id }
    IN IF hit = {}
       THEN [table |-> table \cup {NewRow(NextVal(seq), user, now)},
             id_seq |-> NextVal(seq), id |-> NextVal(seq), inserted |-> TRUE]
       ELSE [table |-> (table \ hit) \cup { ConflictUpdate(r, user) : r \in hit },
             id_seq |-> seq, id |-> (CHOOSE r \in hit : TRUE).id,
             inserted |-> FALSE]

\* INSERT ... ON CONFLICT (user_id) DO UPDATE ... RETURNING id, one atomic
\* statement.  The id default is evaluated for the proposed row before the
\* conflict is detected, so the sequence advances on both branches.
\* Gives the new table, the new sequence value and the id returned.
add_participant(table, seq, user, now) ==
    LET hit == { r \in table : r.user_id = user.id }
        id == NextVal(seq)
    IN IF hit = {}
       THEN [table |-> table \cup {NewRow(id, user, now)}, id_seq |-> id,
             id |-> id, inserted |-> TRUE]
       ELSE [table |-> (table \ hit) \cup { ConflictUpdate(r, user) : r \in hit },
             id_seq |-> id, id |-> (CHOOSE r \in hit : TRUE).id,
             inserted |-> FALSE]

\* ORDER BY id: the rows of a set in ascending id.
RECURSIVE OrderById(_)
OrderById(S) ==
    IF S = {} THEN <<>>
    ELSE LET first == CHOOSE r \in S : \A x \in S : r.id <= x.id
         IN <<first>> \o OrderById(S \ {first})

\* Variant: ORDER BY user_id.
RECURSIVE OrderByUserId(_)
OrderByUserId(S) ==
    IF S = {} THEN <<>>
    ELSE LET first == CHOOSE r \in S : \A x \in S : r.user_id <= x.user_id
         IN <<first>> \o OrderByUserId(S \ {first})

list_participants_by_user(table) == OrderByUserId({ Select(r) : r \in table })

\* SELECT id, user_id, username, first_name, last_name ... ORDER BY id
list_participants(table) == OrderById({ Select(r) : r \in table })

\* ------------------------------------------------------------------ gate
\* Variant: an exception of getChatMember lets the user through.
check_subscription_fail_open(outcome) ==
    outcome \in {"error", "creator", "administrator", "member", "restricted"}

\* Variant: "left" is in the tuple of accepted statuses.
check_subscription_left_counts(outcome) ==
    IF outcome = "error" THEN FALSE
    ELSE outcome \in {"creator", "administrator", "member", "restricted", "left"}

\* check_subscription on what getChatMember answered: an exception is False,
\* otherwise membership of the status in the four accepted ones.
check_subscription(outcome) ==
    IF outcome = "error" THEN FALSE
    ELSE outcome \in {"creator", "administrator", "member", "restricted"}

\* ------------------------------------------------------------------ texts
\* aiogram User.full_name: first_name, plus " " and last_name when there is one.
FullName(user) ==
    LET fn == IF user.first_name = None THEN <<>> ELSE user.first_name
    IN IF Truthy(user.last_name) THEN fn \o <<" ">> \o user.last_name ELSE fn

Fallback == <<"u", "c", "h">>   \* "участник"
\* "(без имени)", transliterated character by character.
NoName == <<"(", "b", "e", "z", " ", "i", "m", "e", "n", "i", ")">>

\* mention = f"@{user.username}" if user.username else (user.full_name or "участник")
Mention(user) ==
    IF Truthy(user.username) THEN <<"@">> \o user.username
    ELSE IF FullName(user) # <<>> THEN FullName(user) ELSE Fallback

\* Variant: the joined names are used as they are, without strip().
DisplayName_unstripped(row) ==
    LET first_name == IF Truthy(row.first_name) THEN row.first_name ELSE <<>>
        last_name == IF Truthy(row.last_name) THEN row.last_name ELSE <<>>
        joined == first_name \o <<" ">> \o last_name
    IN IF Truthy(row.username) THEN <<"@">> \o row.username
       ELSE IF joined # <<" ">> THEN joined ELSE NoName

\* The name cmd_list shows for a row (main.py:239-246).
DisplayName(row) ==
    LET first_name == IF Truthy(row.first_name) THEN row.first_name ELSE <<>>
        last_name == IF Truthy(row.last_name) THEN row.last_name ELSE <<>>
        joined == Strip(first_name \o <<" ">> \o last_name)
    IN IF Truthy(row.username) THEN <<"@">> \o row.username
       ELSE IF joined # <<>> THEN joined ELSE NoName

\* One line of the listing: f"{num}. {name} (id: {user_id})", kept as its pieces.
Line(row) ==
    [num |-> row.id, dot |-> ". ", name |-> DisplayName(row), open |-> " (id: ",
     user_id |-> row.user_id, close |-> ")"]

\* lines of cmd_list, one per row in the order of rows.
Lines(rs) == [i \in 1..Len(rs) |-> Line(rs[i])]

\* str() of a non-negative integer, as its decimal digits.
RECURSIVE Digits(_)
Digits(n) ==
    LET d == <<"0", "1", "2", "3", "4", "5", "6", "7", "8", "9">>[(n % 10) + 1]
    IN IF n < 10 THEN <<d>> ELSE Digits(n \div 10) \o <<d>>

\* Number of characters of one formatted line.
LineLen(line) ==
    Len(Digits(line.num)) + Len(line.dot) + Len(line.name) + Len(line.open)
    + Len(Digits(line.user_id)) + Len(line.close)

\* Characters of "Список участников:\n\n".
HeaderLen == 20

\* len(text) for text = header + "\n".join(lines).
RECURSIVE JoinedLen(_)
JoinedLen(lines) ==
    IF lines = <<>> THEN 0
    ELSE IF Len(lines) = 1 THEN LineLen(lines[1])
    ELSE LineLen(lines[1]) + 1 + JoinedLen(Tail(lines))

TextLen(lines) == HeaderLen + JoinedLen(lines)

\* The messages the handlers send.
Msg(kind, n, mention, lines) ==
    [kind |-> kind, num |-> n, mention |-> mention, lines |-> lines]

MsgAlready(n) == Msg("already", n, <<>>, <<>>)
MsgSubscribe == Msg("subscribe", 0, <<>>, <<>>)
MsgRegistered(n, user) == Msg("registered", n, Mention(user), <<>>)
MsgEmpty == Msg("empty", 0, <<>>, <<>>)
MsgList(rs) == Msg("list", 0, <<>>, Lines(rs))

\* ------------------------------------------------------------------ dispatch
\* Variant: a third handler is registered for the text "join" in any case and
\* runs the registration.
Route_keyword(text) ==
    IF text \in {"/start", "join", "Join", "JOIN"} THEN "cmd_start"
    ELSE IF text = "/list" THEN "cmd_list"
    ELSE "none"

\* The filters of the two registered handlers: CommandStart() and Command("list").
\* The dispatcher runs the first handler whose filter matches, or none.
Route(text) ==
    IF text = "/start" THEN "cmd_start"
    ELSE IF text = "/list" THEN "cmd_list"
    ELSE "none"

\* Variant: an empty allow-set is read as "no restriction".
Entry_open_when_empty(upd, admins) ==
    LET user == upd.from_user
    IN CASE Route(upd.text) = "cmd_start" ->
              IF user.id = 0 THEN "return" ELSE "get_participant"
         [] Route(upd.text) = "cmd_list" ->
              IF user.id = 0 \/ (admins # {} /\ user.id \notin admins)
              THEN "return" ELSE "list_participants"
         [] OTHER -> "return"

\* Variant: a handler without filter is registered last and runs cmd_start's
\* body for whatever the two filters did not match.
Entry_catch_all(upd, admins) ==
    LET user == upd.from_user
    IN CASE Route(upd.text) = "cmd_list" ->
              IF user.id = 0 \/ user.id \notin admins THEN "return"
              ELSE "list_participants"
         [] OTHER -> IF user.id = 0 THEN "return" ELSE "get_participant"

\* Where a handler first suspends: cmd_start returns at once without a sender,
\* cmd_list without a sender or for a sender outside ADMIN_IDS; an update no
\* filter matches runs no handler.
Entry(upd, admins) ==
    LET user == upd.from_user
    IN CASE Route(upd.text) = "cmd_start" ->
              IF user.id = 0 THEN "return" ELSE "get_participant"
         [] Route(upd.text) = "cmd_list" ->
              IF user.id = 0 \/ user.id \notin admins THEN "return"
              ELSE "list_participants"
         [] OTHER -> "return"

\* Task t takes a step and becomes t2.
Step(t, t2) == tasks' = (tasks \ {t}) \cup {t2}

\* The webhook receives an update and the dispatcher starts its handler, which
\* runs up to its first await, or to its return when it has none.
Receive(upd) ==
    /\ arrived < MaxUpdates
    /\ Cardinality(tasks) < MaxTasks
    /\ arrived' = arrived + 1
    /\ tasks' = tasks \cup
                  {NewTask(upd, Route(upd.text), Entry(upd, ADMIN_IDS),
                           arrived + 1, reported)}
    /\ UNCHANGED <<store, ADMIN_IDS, gate_log, reported>>

\* await message.answer(msg), the last statement of its branch.
Answer(t, msg) == [t EXCEPT !.sent = Append(@, msg), !.pc = "return"]

\* The user of task t is told number n.
Told(t, n) == reported' = [reported EXCEPT ![t.update.from_user.id] = @ \cup {n}]

\* The handler of task t has returned or raised: the task ends.
Return(t) ==
    /\ t.pc \in {"return", "raised"}
    /\ tasks' = tasks \ {t}
    /\ UNCHANGED <<store, ADMIN_IDS, gate_log, arrived, reported>>

\* ------------------------------------------------------------------ cmd_start
\* Variant: the handler goes on to the gate whatever the lookup found.
StartLookup_gate_first(t) ==
    /\ t.pc = "get_participant"
    /\ LET found == get_participant(participants, t.update.from_user.id)
       IN Step(t, [t EXCEPT !.existing = found, !.reads = @ + 1,
                            !.pc = "check_subscription"])
    /\ UNCHANGED <<store, ADMIN_IDS, gate_log, arrived, reported>>

\* existing = await get_participant(user.id)
StartLookup(t) ==
    /\ t.pc = "get_participant"
    /\ LET found == get_participant(participants, t.update.from_user.id)
       IN Step(t, [t EXCEPT !.existing = found, !.reads = @ + 1,
                            !.pc = IF found # {} THEN "answer_existing"
                                   ELSE "check_subscription"])
    /\ UNCHANGED <<store, ADMIN_IDS, gate_log, arrived, reported>>

\* if existing: answer with existing["id"] and return
StartAnswerExisting(t) ==
    /\ t.pc = "answer_existing"
    /\ LET n == (CHOOSE r \in t.existing : TRUE).id
       IN Step(t, Answer(t, MsgAlready(n))) /\ Told(t, n)
    /\ UNCHANGED <<store, ADMIN_IDS, gate_log, arrived>>

\* History of the gate: where the log is kept, the call task t made, what
\* getChatMember answered and what check_subscription returned for it.
LogCall(t, outcome) ==
    gate_log' =
        IF gate_log.kept
        THEN [gate_log EXCEPT !.last =
                 << [arrival |-> t.arrival, user_id |-> t.update.from_user.id,
                     outcome |-> outcome,
                     result |-> check_subscription(outcome)] >>]
        ELSE gate_log

\* Variant: the handler reserves a number from the sequence before the gate call.
StartCheckSubscription_reserving(t) ==
    /\ t.pc = "check_subscription"
    /\ \E outcome \in GateOutcomes :
         /\ Step(t, [t EXCEPT !.gate = @ + 1, !.gate_raised = (outcome = "error"),
                              !.subscribed = check_subscription(outcome),
                              !.pc = IF check_subscription(outcome)
                                     THEN "add_participant" ELSE "answer_subscribe"])
         /\ LogCall(t, outcome)
    /\ id_seq' = NextVal(id_seq)
    /\ UNCHANGED <<participants, ADMIN_IDS, arrived, reported>>

\* subscribed = await check_subscription(user.id): one live getChatMember call,
\* whose answer is any status or an exception.
StartCheckSubscription(t) ==
    /\ t.pc = "check_subscription"
    /\ \E outcome \in GateOutcomes :
         /\ Step(t, [t EXCEPT !.gate = @ + 1, !.gate_raised = (outcome = "error"),
                              !.subscribed = check_subscription(outcome),
                              !.pc = IF check_subscription(outcome)
                                     THEN "add_participant" ELSE "answer_subscribe"])
         /\ LogCall(t, outcome)
    /\ UNCHANGED <<store, ADMIN_IDS, arrived, reported>>

\* if not subscribed: answer "subscribe, then press /start again" and return
StartAnswerSubscribe(t) ==
    /\ t.pc = "answer_subscribe"
    /\ Step(t, Answer(t, MsgSubscribe))
    /\ UNCHANGED <<store, ADMIN_IDS, gate_log, arrived, reported>>

\* num = await add_participant(user)
StartAddParticipant(t) ==
    /\ t.pc = "add_participant"
    /\ LET r == add_participant(participants, id_seq, t.update.from_user, Now)
       IN /\ participants' = r.table
          /\ id_seq' = r.id_seq
          /\ Step(t, [t EXCEPT !.num = r.id, !.inserted = r.inserted,
                               !.writes = @ + 1, !.pc = "answer_registered"])
    /\ UNCHANGED <<ADMIN_IDS, gate_log, arrived, reported>>

\* answer "<mention>, you take part; your number: <num>"
StartAnswerRegistered(t) ==
    /\ t.pc = "answer_registered"
    /\ Step(t, Answer(t, MsgRegistered(t.num, t.update.from_user)))
    /\ Told(t, t.num)
    /\ UNCHANGED <<store, ADMIN_IDS, gate_log, arrived>>

\* ------------------------------------------------------------------ cmd_list
\* Variant: the "if not rows" branch is missing, an empty result is rendered
\* like any other.
ListRead_always_renders(t) ==
    /\ t.pc = "list_participants"
    /\ LET got == list_participants(participants)
       IN Step(t, [t EXCEPT !.rows = got, !.reads = @ + 1, !.table = participants,
                            !.pc = "answer_list"])
    /\ UNCHANGED <<store, ADMIN_IDS, gate_log, arrived, reported>>

\* rows = await list_participants(), then the branch on "if not rows"
ListRead(t) ==
    /\ t.pc = "list_participants"
    /\ LET got == list_participants(participants)
       IN Step(t, [t EXCEPT !.rows = got, !.reads = @ + 1, !.table = participants,
                            !.pc = IF got = <<>> THEN "answer_empty"
                                   ELSE "answer_list"])
    /\ UNCHANGED <<store, ADMIN_IDS, gate_log, arrived, reported>>

\* answer "no participants yet" and return
ListAnswerEmpty(t) ==
    /\ t.pc = "answer_empty"
    /\ Step(t, Answer(t, MsgEmpty))
    /\ UNCHANGED <<store, ADMIN_IDS, gate_log, arrived, reported>>

\* build lines from rows and answer header + lines in one message, whatever its
\* length; sendMessage refuses a text above its limit, and message.answer then
\* raises out of the handler with nothing sent.
ListAnswer(t) ==
    /\ t.pc = "answer_list"
    /\ IF TextLen(Lines(t.rows)) > MaxMessageLen
       THEN Step(t, [t EXCEPT !.pc = "raised"])
       ELSE Step(t, Answer(t, MsgList(t.rows)))
    /\ UNCHANGED <<store, ADMIN_IDS, gate_log, arrived, reported>>

\* ------------------------------------------------------------------ failures
\* Variant: the store functions catch the error and give a default result (no
\* row, number 0, no rows), and the handler goes on with it.
StorageError_swallowed(t) ==
    /\ t.pc \in {"get_participant", "add_participant", "list_participants"}
    /\ Step(t, [t EXCEPT !.failed = TRUE,
                         !.pc = CASE t.pc = "get_participant" -> "check_subscription"
                                  [] t.pc = "add_participant" -> "answer_registered"
                                  [] OTHER -> "answer_empty"])
    /\ UNCHANGED <<store, ADMIN_IDS, gate_log, arrived, reported>>

\* A store call raises (pool.acquire or the query fails) before it has any
\* effect; the exception leaves the handler, which sends nothing.
StorageError(t) ==
    /\ t.pc \in {"get_participant", "add_participant", "list_participants"}
    /\ Step(t, [t EXCEPT !.pc = "raised", !.failed = TRUE])
    /\ UNCHANGED <<store, ADMIN_IDS, gate_log, arrived, reported>>

Next ==
    \/ \E upd \in Updates(arrived + 1) : Receive(upd)
    \/ \E t \in tasks : StartLookup(t)
    \/ \E t \in tasks : StartAnswerExisting(t)
    \/ \E t \in tasks : StartCheckSubscription(t)
    \/ \E t \in tasks : StartAnswerSubscribe(t)
    \/ \E t \in tasks : StartAddParticipant(t)
    \/ \E t \in tasks : StartAnswerRegistered(t)
    \/ \E t \in tasks : ListRead(t)
    \/ \E t \in tasks : ListAnswerEmpty(t)
    \/ \E t \in tasks : ListAnswer(t)
    \/ \E t \in tasks : StorageError(t)
    \/ \E t \in tasks : Return(t)

Spec == Init /\ [][Next]_vars

\* ------------------------------------------------------------------ one by one
\* The same handlers run one update at a time, on more kinds of text and with
\* the log of the gate kept: for what holds of one update or one gate call.
Texts == {"/start", "/list", "Join", "hi"}

AllUpdates(n) ==
    { [text |-> t, from_user |-> TgUser(i, ProfileAt(i, n))] :
        t \in Texts, i \in Users }
    \cup { [text |-> t, from_user |-> NoUser] : t \in Texts }

InitSeq ==
    /\ participants = {}
    /\ id_seq = 0
    /\ ADMIN_IDS \in AdminConfigs
    /\ arrived = 0
    /\ tasks = {}
    /\ reported = [u \in Users |-> {}]
    /\ gate_log = [kept |-> TRUE, last |-> <<>>]

\* An update arrives when the handler of the one before is over.
ReceiveAlone(upd) == tasks = {} /\ Receive(upd)

NextSeq ==
    \/ \E upd \in AllUpdates(arrived + 1) : ReceiveAlone(upd)
    \/ \E t \in tasks : StartLookup(t)
    \/ \E t \in tasks : StartAnswerExisting(t)
    \/ \E t \in tasks : StartCheckSubscription(t)
    \/ \E t \in tasks : StartAnswerSubscribe(t)
    \/ \E t \in tasks : StartAddParticipant(t)
    \/ \E t \in tasks : StartAnswerRegistered(t)
    \/ \E t \in tasks : ListRead(t)
    \/ \E t \in tasks : ListAnswerEmpty(t)
    \/ \E t \in tasks : ListAnswer(t)
    \/ \E t \in tasks : StorageError(t)
    \/ \E t \in tasks : Return(t)

SpecSeq == InitSeq /\ [][NextSeq]_vars

\* ================================================================== claims
\* Vocabulary of the properties below.
Sender(t) == t.update.from_user.id
IsStart(t) == Route(t.update.text) = "cmd_start" /\ Sender(t) # 0
IsList(t) == Route(t.update.text) = "cmd_list"
RowsOf(u) == { r \in participants : r.user_id = u }
\* The numbers task t has sent to its user.
NumbersSent(t) ==
    { t.sent[i].num : i \in { j \in 1..Len(t.sent) :
                               t.sent[j].kind \in {"already", "registered"} } }
\* The numbers task t holds to report: from its lookup or from its upsert.
NumbersHeld(t) ==
    { r.id : r \in t.existing } \cup (IF t.writes > 0 THEN {t.num} ELSE {})

\* ------------------------------------------------------------------ C1
\* C1: a /start of a user who was already told a number (a second run after a
\* finished first one) reports that same number again, and the table holds
\* exactly one row for that user.
C1_IdempotentRegistration ==
    \A t \in tasks :
        (IsStart(t) /\ t.rerun) =>
            \A n \in NumbersSent(t) :
                /\ reported[Sender(t)] = {n}
                /\ Cardinality(RowsOf(Sender(t))) = 1
                /\ \A r \in RowsOf(Sender(t)) : r.id = n

\* A second run has answered with a number.
C1_Witness ==
    \E t \in tasks :
        IsStart(t) /\ t.rerun /\ t.pc = "return" /\ NumbersSent(t) # {}

\* ------------------------------------------------------------------ C2
\* C2: whatever the interleaving of the handlers of one user, the table never
\* holds two rows for the user, and all numbers reported to the user or held by
\* a running handler of the user are one and the same.
C2_ConcurrentRegistration ==
    \A u \in Users :
        /\ Cardinality(RowsOf(u)) <= 1
        /\ Cardinality(reported[u] \cup
             UNION { NumbersHeld(t) : t \in { x \in tasks : Sender(x) = u } }) <= 1

\* Two handlers of one user both missed the row at lookup and both ran the
\* upsert: one inserted, the other hit the conflict and got the same number.
C2_Witness ==
    \E t1 \in tasks, t2 \in tasks :
        /\ t1 # t2 /\ Sender(t1) = Sender(t2)
        /\ t1.existing = {} /\ t2.existing = {}
        /\ t1.writes = 1 /\ t1.inserted
        /\ t2.writes = 1 /\ ~t2.inserted /\ t2.num = t1.num

\* ------------------------------------------------------------------ C3
\* C3: when getChatMember raises, check_subscription gives False, the handler
\* writes nothing to the store, and what it sends is the "subscribe" message.
C3_FailClosedGate ==
    \A t \in tasks :
        t.gate_raised =>
            /\ ~t.subscribed
            /\ t.writes = 0 /\ ~t.inserted /\ t.num = 0
            /\ t.pc \in {"answer_subscribe", "return"}
            /\ t.sent = IF t.pc = "return" THEN <<MsgSubscribe>> ELSE <<>>

\* A handler whose gate call raised has answered.
C3_Witness ==
    \E t \in tasks : t.gate_raised /\ t.pc = "return" /\ t.sent = <<MsgSubscribe>>

\* ------------------------------------------------------------------ C4
\* Task t is turned away at the gate in this step: its gate call says "not
\* subscribed", or it sends the "subscribe" message.
RejectedStep(t) ==
    /\ t.pc \in {"check_subscription", "answer_subscribe"}
    /\ \E t2 \in tasks' :
         /\ t2.arrival = t.arrival
         /\ t2.pc \in {"answer_subscribe", "return"}
         /\ t2.pc # t.pc

\* C4: a rejected attempt leaves the table and the sequence as they were and
\* holds no number, so the number a later successful attempt gets does not
\* depend on how many rejections came before.
C4_NoSideEffectOnRejection ==
    [][ \A t \in tasks :
          RejectedStep(t) =>
              /\ participants' = participants
              /\ id_seq' = id_seq
              /\ reported' = reported
              /\ \A t2 \in tasks' : t2.arrival = t.arrival =>
                     t2.writes = 0 /\ t2.num = 0 ]_vars

\* A user with no row was rejected for not being a member while the table
\* already holds another user's row.
C4_Witness ==
    \E t \in tasks :
        /\ t.pc = "return" /\ t.sent = <<MsgSubscribe>> /\ ~t.gate_raised
        /\ RowsOf(Sender(t)) = {}
        /\ participants # {}

\* ------------------------------------------------------------------ C5
\* C5 as claimed: of two registrations of different users, the one whose update
\* arrived first has the smaller number.
C5_ArrivalOrder ==
    \A t1 \in tasks, t2 \in tasks :
        ( /\ t1.inserted /\ t2.inserted
          /\ Sender(t1) # Sender(t2)
          /\ t1.arrival < t2.arrival ) => t1.num < t2.num

\* C5 as amended: numbers grow in the order the rows are inserted: a row
\* inserted for a new user gets a number above every number in the table.
C5_InsertionOrder ==
    [][ \A r \in participants' :
          RowsOf(r.user_id) = {} => \A o \in participants : o.id < r.id ]_vars

\* Two users are registered, the later insert having the larger number.
C5_Witness ==
    \E t \in tasks :
        /\ t.inserted
        /\ \E o \in participants : o.user_id # Sender(t) /\ o.id < t.num

\* ------------------------------------------------------------------ C6
\* C6: a handler whose lookup found the user's row calls neither the gate nor
\* the upsert, and what it sends is the "already" message with the number of
\* the user's row in the table.
C6_AlreadyRegisteredFastPath ==
    \A t \in tasks :
        t.existing # {} =>
            /\ t.gate = 0 /\ t.writes = 0
            /\ t.pc \in {"answer_existing", "return"}
            /\ t.sent # <<>> => t.pc = "return"
            /\ t.pc = "return" =>
                 \E r \in RowsOf(Sender(t)) : t.sent = <<MsgAlready(r.id)>>

\* A registered user's /start has been answered from the lookup alone.
C6_Witness ==
    \E t \in tasks :
        t.existing # {} /\ t.pc = "return" /\ t.gate = 0 /\ Len(t.sent) = 1

\* ------------------------------------------------------------------ C7
\* No two rows share a number.
UniqueNumbers ==
    \A r1 \in participants, r2 \in participants : r1.id = r2.id => r1 = r2

\* Every row stays, for the same user under the same number.
RowsStay ==
    \A r \in participants :
        \E r2 \in participants' : r2.user_id = r.user_id /\ r2.id = r.id

\* A number handed out is never held by another user later.
NumbersNotReassigned ==
    \A r \in participants, r2 \in participants' :
        r2.id = r.id => r2.user_id = r.user_id

\* C7: a row, once there, stays under the same number through every later
\* operation, and no number is held by two users or passes to another user.
C7_RegisteredIsTerminal ==
    /\ []UniqueNumbers
    /\ [][RowsStay /\ NumbersNotReassigned]_vars

\* A row has been through an upsert refresh: the sequence is ahead of the rows.
C7_Witness ==
    /\ \E t \in tasks : t.writes = 1 /\ ~t.inserted
    /\ Cardinality(participants) >= 1
    /\ id_seq > Cardinality(participants)

\* ------------------------------------------------------------------ C8
\* The user whose upsert runs in this step, if one does.
Upserting == { t \in tasks : t.pc = "add_participant" /\
                 \E t2 \in tasks' : t2.arrival = t.arrival /\ t2.writes = 1 }

\* C8: an upsert for a user with a row overwrites username, first_name and
\* last_name with the values passed, keeps id and created_at, and returns the
\* row's id; for a user without a row it adds exactly one row; it leaves the
\* rows of all other users alone.
C8_UpsertFrame ==
    [][ \A t \in Upserting :
          LET u == t.update.from_user
              old == RowsOf(u.id)
              new == { r \in participants' : r.user_id = u.id }
              ret == (CHOOSE t2 \in tasks' : t2.arrival = t.arrival).num
          IN /\ participants' \ new = participants \ old
             /\ Cardinality(new) = 1
             /\ \A r \in new :
                  /\ r.username = u.username
                  /\ r.first_name = u.first_name
                  /\ r.last_name = u.last_name
                  /\ ret = r.id
                  /\ \A o \in old : r.id = o.id /\ r.created_at = o.created_at
             /\ old = {} => Cardinality(participants') = Cardinality(participants) + 1
        ]_vars

\* An upsert has refreshed the display data of an existing row: the row shows
\* the data of the update whose upsert hit the conflict, under the old number.
C8_Witness ==
    \E t \in tasks, r \in participants :
        /\ t.writes = 1 /\ ~t.inserted
        /\ r.user_id = Sender(t) /\ r.id = t.num
        /\ r.username = t.update.from_user.username
        /\ r.created_at < id_seq - 1
        /\ \E o \in participants : o.user_id # r.user_id

\* ------------------------------------------------------------------ C9
\* The sender of t is not allowed to list: no sender, or not in ADMIN_IDS.
NotAdmin(t) == Sender(t) = 0 \/ Sender(t) \notin ADMIN_IDS

\* C9: a /list from a sender outside ADMIN_IDS, or with no sender, sends no
\* message and makes no call to the store.
C9_AdminSilence ==
    \A t \in tasks :
        (IsList(t) /\ NotAdmin(t)) =>
            /\ t.pc = "return"
            /\ t.sent = <<>>
            /\ t.reads = 0 /\ t.writes = 0 /\ t.gate = 0
            /\ t.rows = <<>>

\* A user outside a non-empty allow-set asked for the list of a non-empty table.
C9_Witness ==
    \E t \in tasks :
        /\ IsList(t) /\ Sender(t) # 0 /\ NotAdmin(t)
        /\ ADMIN_IDS # {} /\ participants # {}

\* ------------------------------------------------------------------ C10
\* The listing task t has sent, as a sequence of lines (empty if none sent).
Listing(t) ==
    IF t.sent # <<>> /\ t.sent[1].kind = "list" THEN t.sent[1].lines ELSE <<>>

\* One line per row of the table as read, each row on exactly one line, in
\* strictly ascending number, each line "<num>. <name><open><user_id>)".
ListingIs(t, open) ==
    LET lines == Listing(t)
    IN /\ Len(t.sent) = 1 /\ t.sent[1].kind = "list"
       /\ Len(lines) = Cardinality(t.table)
       /\ \A r \in t.table :
            \E i \in 1..Len(lines) :
                /\ lines[i].num = r.id /\ lines[i].user_id = r.user_id
                /\ lines[i].name = DisplayName(r)
                /\ \A j \in 1..Len(lines) : lines[j].user_id = r.user_id => j = i
       /\ \A i \in 1..Len(lines), j \in 1..Len(lines) :
            i < j => lines[i].num < lines[j].num
       /\ \A i \in 1..Len(lines) :
            /\ lines[i].dot = ". " /\ lines[i].open = open /\ lines[i].close = ")"

\* An authorized /list that read a non-empty table has answered.
Listed(t) == IsList(t) /\ ~NotAdmin(t) /\ t.table # {} /\ t.pc = "return"

\* C10 as claimed: the lines read "<num>. <name> (id <user_id>)".
C10_ListingAsClaimed == \A t \in tasks : Listed(t) => ListingIs(t, " (id ")

\* C10 as amended: the lines read "<num>. <name> (id: <user_id>)".
C10_ListingCompleteAndOrdered ==
    \A t \in tasks : Listed(t) => ListingIs(t, " (id: ")

\* A listing of two rows, the user with the larger id holding the smaller number.
C10_Witness ==
    \E t \in tasks :
        /\ Listed(t) /\ Len(Listing(t)) = 2
        /\ Listing(t)[1].user_id > Listing(t)[2].user_id

\* ------------------------------------------------------------------ C11
\* An authorized /list read a table whose rendered text is above the limit, and
\* the handler is over.
Oversized(t) ==
    /\ IsList(t) /\ ~NotAdmin(t) /\ t.table # {}
    /\ TextLen(Lines(t.rows)) > MaxMessageLen
    /\ t.pc \in {"return", "raised"}

\* The lines of all messages t has sent, one after the other.
RECURSIVE AllLines(_)
AllLines(msgs) ==
    IF msgs = <<>> THEN <<>> ELSE Head(msgs).lines \o AllLines(Tail(msgs))

\* C11: a listing whose rendered text exceeds the limit is sent as two or more
\* messages, each within the limit, which together carry every line, whole and
\* in order.
C11_OversizedListingSplits ==
    \A t \in tasks :
        Oversized(t) =>
            /\ Len(t.sent) >= 2
            /\ \A i \in 1..Len(t.sent) : TextLen(t.sent[i].lines) <= MaxMessageLen
            /\ AllLines(t.sent) = Lines(t.rows)

\* What the handler does instead: the one oversized text is refused and the
\* admin gets nothing.
C11_Observed ==
    \E t \in tasks : Oversized(t) /\ t.pc = "raised" /\ t.sent = <<>>

\* ------------------------------------------------------------------ C12
\* The name a row is to be shown under, given what stands in for a row without
\* username and names: "@" and the username; else first and last name with one
\* blank between them, or the one of them there is; else the stand-in.
NameFor(r, standin) ==
    CASE Truthy(r.username) -> <<"@">> \o r.username
      [] ~Truthy(r.username) /\ Truthy(r.first_name) /\ Truthy(r.last_name) ->
             r.first_name \o <<" ">> \o r.last_name
      [] ~Truthy(r.username) /\ Truthy(r.first_name) /\ ~Truthy(r.last_name) ->
             r.first_name
      [] ~Truthy(r.username) /\ ~Truthy(r.first_name) /\ Truthy(r.last_name) ->
             r.last_name
      [] OTHER -> standin

\* Every line of a listing sent shows its row under NameFor.
NamesAre(t, raw_id) ==
    LET lines == Listing(t)
    IN /\ Len(lines) = Len(t.rows)
       /\ \A i \in 1..Len(lines) :
            lines[i].name =
                NameFor(t.rows[i],
                        IF raw_id THEN Digits(t.rows[i].user_id) ELSE NoName)

\* C12 as claimed: a row without username and names is shown under its raw
\* user id.
C12_FallbackToUserId == \A t \in tasks : Listed(t) => NamesAre(t, TRUE)

\* C12 as amended: the shown name is "@" and the username when there is one;
\* otherwise first and last name joined and trimmed when that is not empty;
\* otherwise the fixed text "(без имени)".
C12_DisplayNameFallback == \A t \in tasks : Listed(t) => NamesAre(t, FALSE)

\* A listing has shown a row without username and names under the fixed text,
\* and its user id only inside the parentheses.
C12_Witness ==
    \E t \in tasks :
        /\ Listed(t)
        /\ \E i \in 1..Len(Listing(t)) :
             /\ ~Truthy(t.rows[i].username)
             /\ ~Truthy(t.rows[i].first_name) /\ ~Truthy(t.rows[i].last_name)
             /\ Listing(t)[i].name = NoName
             /\ Listing(t)[i].user_id = t.rows[i].user_id

\* ------------------------------------------------------------------ C13
\* A store call of task t raises in this step.
FailingStep(t) ==
    /\ ~t.failed
    /\ \E t2 \in tasks' : t2.arrival = t.arrival /\ t2.failed

\* A /start handler one of whose store calls raised is over by the exception,
\* has sent nothing, holds no number and has inserted nothing.
FailedSaysNothing ==
    \A t \in tasks :
        (IsStart(t) /\ t.failed) =>
            /\ t.pc = "raised"
            /\ t.sent = <<>>
            /\ t.num = 0 /\ t.writes = 0 /\ ~t.inserted

\* C13: when get_participant or add_participant raises in cmd_start, the
\* exception leaves the handler, which sends no message (so none with a number
\* or a confirmation), and the failing call adds no row, takes no number from
\* the sequence and tells the user nothing.
C13_NoFalseConfirmation ==
    /\ []FailedSaysNothing
    /\ [][ \A t \in tasks :
             (IsStart(t) /\ FailingStep(t)) =>
                 /\ participants' = participants
                 /\ id_seq' = id_seq
                 /\ reported' = reported ]_vars

\* The upsert of a user who passed the gate raised: the user has no row and has
\* been sent nothing.
C13_Witness ==
    \E t \in tasks :
        /\ IsStart(t) /\ t.failed /\ t.subscribed /\ t.gate = 1
        /\ RowsOf(Sender(t)) = {} /\ reported[Sender(t)] = {}

\* ------------------------------------------------------------------ C14
\* The trigger keyword of the claim, and matching it whatever the case.
Keyword == "join"
Lower(text) == IF text \in {"join", "Join", "JOIN"} THEN "join" ELSE text
IsTrigger(text) == text = "/start" \/ Lower(text) = Keyword

\* The registration has been started for the sender of t: cmd_start ran and
\* went to its lookup.
RoutedToRegistration(t) ==
    /\ t.handler = "cmd_start"
    /\ t.pc = "get_participant" \/ t.reads = 1 \/ t.failed

\* C14 as claimed: a message with a sender that is a start command, or whose
\* text is the keyword in any case, is routed to the registration.
C14_TriggersAsClaimed ==
    \A t \in tasks :
        (IsTrigger(t.update.text) /\ Sender(t) # 0) => RoutedToRegistration(t)

\* C14 as amended: a start command with a sender is routed to the registration;
\* text that is no command, the keyword included, runs no handler.
C14_StartCommandOnly ==
    \A t \in tasks :
        /\ (t.update.text = "/start" /\ Sender(t) # 0) => RoutedToRegistration(t)
        /\ t.update.text \notin {"/start", "/list"} =>
               t.handler = "none" /\ ~RoutedToRegistration(t)

\* A start command, the second update received, has taken its sender, who has
\* no row, through the lookup to the gate call.
C14_Witness ==
    \E t \in tasks :
        /\ t.update.text = "/start" /\ RoutedToRegistration(t)
        /\ t.arrival = 2 /\ participants = {} /\ t.gate = 1

\* ------------------------------------------------------------------ C15
\* What only cmd_start does, and what only cmd_list does.
SentKinds(t) == { t.sent[i].kind : i \in 1..Len(t.sent) }
DidRegistration(t) ==
    \/ t.pc \in {"get_participant", "answer_existing", "check_subscription",
                 "answer_subscribe", "add_participant", "answer_registered"}
    \/ t.existing # {} \/ t.gate > 0 \/ t.writes > 0
    \/ SentKinds(t) \cap {"already", "subscribe", "registered"} # {}
DidListing(t) ==
    \/ t.pc \in {"list_participants", "answer_empty", "answer_list"}
    \/ t.rows # <<>> \/ t.table # {}
    \/ SentKinds(t) \cap {"empty", "list"} # {}

\* No handler of an update does the work of both workflows, and an update that
\* is neither command runs nothing.
OneWorkflow ==
    \A t \in tasks :
        /\ ~(DidRegistration(t) /\ DidListing(t))
        /\ DidRegistration(t) => t.handler = "cmd_start"
        /\ DidListing(t) => t.handler = "cmd_list"
        /\ t.handler = "none" =>
               /\ t.pc = "return" /\ t.sent = <<>>
               /\ t.reads = 0 /\ t.writes = 0 /\ t.gate = 0 /\ ~t.failed

\* The update of this step, arriving or ending, is one no filter matches.
UnhandledStep ==
    \E t \in (tasks \ tasks') \cup (tasks' \ tasks) : t.handler = "none"

\* C15: an update runs at most one of registration and listing, never both; an
\* update that is neither a start command nor /list runs neither, sends no
\* message and leaves table, sequence and reported numbers as they were.
C15_AtMostOneWorkflow ==
    /\ []OneWorkflow
    /\ [][ UnhandledStep =>
             /\ participants' = participants
             /\ id_seq' = id_seq
             /\ reported' = reported ]_vars

\* Free text from a registered user who is also the admin has been ignored.
C15_Witness ==
    \E t \in tasks :
        /\ t.handler = "none" /\ Sender(t) \in ADMIN_IDS
        /\ RowsOf(Sender(t)) # {} /\ t.sent = <<>>

\* ------------------------------------------------------------------ C16
\* The statuses that count as being in the channel.
Present == {"creator", "administrator", "member", "restricted"}

\* C16: check_subscription returns True exactly when getChatMember answered
\* creator, administrator, member or restricted, and False for any other status
\* and when the call raised; every handler that is past the gate has made its
\* own call, and what it holds is the result of that call.
C16_GateStatusMapping ==
    /\ \A i \in 1..Len(gate_log.last) :
         LET c == gate_log.last[i]
         IN /\ c.result = (c.outcome \in Present)
            /\ c.outcome \in {"left", "kicked", "error"} => ~c.result
    /\ \A t \in tasks :
         t.pc \in {"answer_subscribe", "add_participant", "answer_registered"} =>
             /\ t.gate = 1
             /\ \E i \in 1..Len(gate_log.last) :
                  /\ gate_log.last[i].arrival = t.arrival
                  /\ gate_log.last[i].user_id = Sender(t)
                  /\ gate_log.last[i].result = t.subscribed

\* The handler of the second update received has made its own call, was
\* answered "restricted", and goes on to the upsert.
C16_Witness ==
    \E t \in tasks, i \in 1..Len(gate_log.last) :
        /\ gate_log.last[i].arrival = t.arrival /\ t.arrival = 2
        /\ gate_log.last[i].outcome = "restricted" /\ t.subscribed
        /\ t.pc = "add_participant" /\ participants = {} /\ ~t.rerun

\* ------------------------------------------------------------------ C17
\* An authorized /list has read the table and found it empty.
ReadEmpty(t) == IsList(t) /\ ~NotAdmin(t) /\ t.reads = 1 /\ t.table = {}

\* C17: an authorized /list on a table without rows sends exactly one message,
\* the "no participants yet" text, and neither the header nor any line.
C17_EmptyListing ==
    \A t \in tasks :
        ReadEmpty(t) =>
            /\ t.rows = <<>>
            /\ t.pc \in {"answer_empty", "return"}
            /\ t.sent = IF t.pc = "return" THEN <<MsgEmpty>> ELSE <<>>
            /\ \A i \in 1..Len(t.sent) :
                 t.sent[i].kind # "list" /\ t.sent[i].lines = <<>>

\* The admin has been told that there are no participants; the /list was not
\* the first update received, and nothing before it led to a row.
C17_Witness ==
    \E t \in tasks :
        /\ ReadEmpty(t) /\ t.pc = "return" /\ t.sent = <<MsgEmpty>>
        /\ t.arrival > 1 /\ participants = {}

\* ------------------------------------------------------------------ C20
\* The numbers held by the rows.
Numbers == { r.id : r \in participants }

\* C20 as claimed: the numbers are exactly 1..N for N rows, the sequence having
\* advanced once per row.
C20_GapFree ==
    /\ Numbers = 1..Cardinality(participants)
    /\ id_seq = Cardinality(participants)

\* The numbers are distinct values of the sequence handed out so far, and they
\* are 1..N whenever the sequence has advanced once per row.
NumbersWithinSequence ==
    /\ UniqueNumbers
    /\ Numbers \subseteq 1..id_seq
    /\ id_seq = Cardinality(participants) =>
           Numbers = 1..Cardinality(participants)

\* C20 as amended: the sequence advances by one on every upsert, on the conflict
\* branch too, and on no other step; an inserted row takes the new value.  The
\* numbers are distinct members of 1..id_seq, and exactly 1..N only while no
\* upsert has hit the conflict branch.
C20_NumbersFromSequence ==
    /\ []NumbersWithinSequence
    /\ [][ /\ Upserting = {} => id_seq' = id_seq
           /\ \A t \in Upserting :
                /\ id_seq' = id_seq + 1
                /\ \A r \in participants' \ participants :
                     RowsOf(r.user_id) = {} => r.id = id_seq' ]_vars

\* Two rows hold the numbers 1 and 3: number 2 went to an upsert that hit the
\* conflict branch.
C20_Witness ==
    /\ Cardinality(participants) = 2
    /\ Numbers = {1, 3}

====
